---- MODULE Spec2Model ----
(***************************************************************************)
(* Model of src/main7.py (class LyricsOverlay): the lyrics loader, the     *)
(* title-change detector, the worker's update loop and the start/close     *)
(* lifecycle.                                                              *)
(*                                                                         *)
(* Strings are sequences of tokens: a token is a character (" ", "-",      *)
(* "|", "(", ")", "[", "]", "'") or a whole word ("YouTube", "official",   *)
(* "a", "b", ...).  The words never combine into one another, so the       *)
(* regular expressions of the source act on token sequences as they act on *)
(* the concatenated text.  Python's None is the one-token sequence None.   *)
(* The clock counts whole seconds.                                         *)
(***************************************************************************)
EXTENDS Integers, Sequences, FiniteSets, TLC

None == <<"None">>
EmptyStr == <<>>

\* ------------------------------------------------------------------ bounds
MaxTime == 6
MaxRaceTime == 2

\* --------------------------------------------------------------- strings
IsSpace(c) == c = " "

RECURSIVE LStrip(_)
LStrip(s) == IF s # <<>> /\ IsSpace(Head(s)) THEN LStrip(Tail(s)) ELSE s

RECURSIVE RStrip(_)
RStrip(s) ==
    IF s # <<>> /\ IsSpace(s[Len(s)]) THEN RStrip(SubSeq(s, 1, Len(s) - 1)) ELSE s

\* str.strip()
Strip(s) == RStrip(LStrip(s))

\* ' '.join(s.split()): runs of whitespace become one space, the ends are trimmed
RECURSIVE Collapse(_)
Collapse(s) ==
    IF s = <<>> THEN <<>>
    ELSE IF IsSpace(Head(s))
         THEN (IF LStrip(s) = <<>> THEN <<>> ELSE <<" ">> \o Collapse(LStrip(s)))
         ELSE <<Head(s)>> \o Collapse(Tail(s))

JoinSplit(s) == Collapse(LStrip(s))

\* index of the first non-space token at or after i (Len(s)+1 when there is none)
RECURSIVE SkipSpaces(_, _)
SkipSpaces(s, i) ==
    IF i <= Len(s) /\ IsSpace(s[i]) THEN SkipSpaces(s, i + 1) ELSE i

\* 'youtube', compared case-insensitively
IsYouTube(c) == c \in {"YouTube", "youtube", "YOUTUBE"}

\* r'\s*-\s*YouTube.*$' matches at i
SuffixMatchAt(s, i) ==
    LET j == SkipSpaces(s, i)
        k == SkipSpaces(s, j + 1)
    IN  /\ j <= Len(s) /\ s[j] = "-"
        /\ k <= Len(s) /\ IsYouTube(s[k])

\* r'\s*\|.*$' matches at i
PipeMatchAt(s, i) ==
    LET j == SkipSpaces(s, i) IN j <= Len(s) /\ s[j] = "|"

\* the annotation markers, as the sets of tokens that contain them
\* (re.IGNORECASE)
Marker(m) ==
    CASE m = "official" -> {"official", "Official"}
      [] m = "audio"    -> {"audio", "Audio"}
      [] m = "video"    -> {"video", "Video"}
      [] m = "lyric"    -> {"lyric", "lyrics", "Lyrics"}
      [] m = "live"     -> {"live", "Live"}
      [] m = "cover"    -> {"cover", "Cover"}
      [] m = "remix"    -> {"remix", "Remix"}
      [] m = "HD"       -> {"HD", "hd"}
      [] m = "\\d+p"    -> {"720p", "1080p"}
      [] m = "HQ"       -> {"HQ", "hq"}

Pat(o, c, m) == [open |-> o, close |-> c, marker |-> m]

patterns == <<
    Pat("(", ")", "official"), Pat("[", "]", "official"),
    Pat("(", ")", "audio"),    Pat("[", "]", "audio"),
    Pat("(", ")", "video"),    Pat("[", "]", "video"),
    Pat("(", ")", "lyric"),    Pat("[", "]", "lyric"),
    Pat("(", ")", "live"),     Pat("(", ")", "cover"),
    Pat("(", ")", "remix"),    Pat("(", ")", "HD"),
    Pat("(", ")", "\\d+p"),    Pat("[", "]", "HQ") >>

\* index of the first token equal to c at or after i (Len(s)+1 when there is none)
RECURSIVE FirstAt(_, _, _)
FirstAt(s, c, i) ==
    IF i <= Len(s) /\ s[i] # c THEN FirstAt(s, c, i + 1) ELSE i

\* r'\([^)]*marker[^)]*\)' matches at i: the group runs to the first closing
\* token after i and holds the marker
GroupMatchAt(s, p, i) ==
    LET c == FirstAt(s, p.close, i + 1)
    IN  /\ s[i] = p.open
        /\ c <= Len(s)
        /\ \E m \in (i + 1)..(c - 1) : s[m] \in Marker(p.marker)

\* re.sub(pattern, '', s): every leftmost non-overlapping match is removed
RECURSIVE SubGroup(_, _, _)
SubGroup(s, p, i) ==
    IF i > Len(s) THEN <<>>
    ELSE IF GroupMatchAt(s, p, i)
         THEN SubGroup(s, p, FirstAt(s, p.close, i + 1) + 1)
         ELSE <<s[i]>> \o SubGroup(s, p, i + 1)

RECURSIVE SubPatterns(_, _)
SubPatterns(s, n) ==
    IF n > Len(patterns) THEN s
    ELSE SubPatterns(SubGroup(s, patterns[n], 1), n + 1)

\* re.sub of a pattern that runs to the end of the text: the text is cut at
\* the leftmost position where it matches
CutSuffix(s) ==
    IF \E i \in 1..Len(s) : SuffixMatchAt(s, i)
    THEN SubSeq(s, 1, (CHOOSE i \in 1..Len(s) :
             SuffixMatchAt(s, i) /\ \A j \in 1..(i - 1) : ~SuffixMatchAt(s, j)) - 1)
    ELSE s

CutPipe(s) ==
    IF \E i \in 1..Len(s) : PipeMatchAt(s, i)
    THEN SubSeq(s, 1, (CHOOSE i \in 1..Len(s) :
             PipeMatchAt(s, i) /\ \A j \in 1..(i - 1) : ~PipeMatchAt(s, j)) - 1)
    ELSE s

clean_title(title) == JoinSplit(SubPatterns(CutPipe(CutSuffix(title)), 1))

\* the first " - " of s (0 when there is none)
DashAt(s) ==
    IF \E i \in 1..(Len(s) - 2) : s[i] = " " /\ s[i + 1] = "-" /\ s[i + 2] = " "
    THEN CHOOSE i \in 1..(Len(s) - 2) :
             /\ s[i] = " " /\ s[i + 1] = "-" /\ s[i + 2] = " "
             /\ \A j \in 1..(i - 1) : ~(s[j] = " " /\ s[j + 1] = "-" /\ s[j + 2] = " ")
    ELSE 0

\* re.match(r"'([^']+)'\s+(.+)", s)
QuoteEnd(s) == FirstAt(s, "'", 2)
QuotedMatch(s) ==
    /\ Len(s) >= 1 /\ s[1] = "'"
    /\ QuoteEnd(s) > 2 /\ QuoteEnd(s) < Len(s)
    /\ IsSpace(s[QuoteEnd(s) + 1])
    /\ QuoteEnd(s) + 2 <= Len(s)

parse_song(title) ==
    LET clean == clean_title(title)
        d == DashAt(clean)
    IN  IF d # 0
        THEN [artist |-> Strip(SubSeq(clean, 1, d - 1)),
              song   |-> Strip(SubSeq(clean, d + 3, Len(clean))),
              full   |-> clean]
        ELSE IF QuotedMatch(clean)
        THEN [artist |-> Strip(SubSeq(clean, SkipSpaces(clean, QuoteEnd(clean) + 1),
                                      Len(clean))),
              song   |-> Strip(SubSeq(clean, 2, QuoteEnd(clean) - 1)),
              full   |-> clean]
        ELSE [artist |-> EmptyStr, song |-> Strip(clean), full |-> clean]

\* ------------------------------------------------------------------- LRC
\* One line of an LRC text: match says whether it has the form [m:s.c]text;
\* text is group(4), not yet stripped.
LrcLine(m, s, c, t) ==
    [match |-> TRUE, minutes |-> m, seconds |-> s, centis |-> c, text |-> t]
JunkLine ==
    [match |-> FALSE, minutes |-> 0, seconds |-> 0, centis |-> 0, text |-> <<>>]

\* A syncedLyrics value: a string (its lines), a truthy value that is no
\* string, or nothing (None, or the empty string).
LrcText(ls) == [kind |-> "str", lines |-> ls]
NonString == [kind |-> "nonstr", lines |-> <<>>]
NoLrc == [kind |-> "none", lines |-> <<>>]

\* Python truth value of a syncedLyrics value
Truthy(v) == v.kind = "nonstr" \/ (v.kind = "str" /\ v.lines # <<>>)

\* minutes * 60 + seconds + centis / 100, for centis a multiple of 100
total_sec(l) == l.minutes * 60 + l.seconds + (l.centis \div 100)

\* sorted(..., key=time) is stable: x goes after the entries that are not later
RECURSIVE InsertSorted(_, _)
InsertSorted(x, sorted) ==
    IF sorted = <<>> THEN <<x>>
    ELSE IF Head(sorted).time <= x.time
         THEN <<Head(sorted)>> \o InsertSorted(x, Tail(sorted))
         ELSE <<x>> \o sorted

RECURSIVE SortByTime(_)
SortByTime(ls) ==
    IF ls = <<>> THEN <<>>
    ELSE InsertSorted(ls[Len(ls)], SortByTime(SubSeq(ls, 1, Len(ls) - 1)))

RECURSIVE TimedLines(_)
TimedLines(ls) ==
    IF ls = <<>> THEN <<>>
    ELSE LET l == Head(ls) IN
         IF l.match /\ Strip(l.text) # <<>>
         THEN <<[time |-> total_sec(l), text |-> Strip(l.text)]>> \o TimedLines(Tail(ls))
         ELSE TimedLines(Tail(ls))

\* lrc_text.split raises AttributeError on a value that is no string
parse_lrc_raises(lrc_text) == lrc_text.kind # "str"

parse_lrc(lrc_text) == SortByTime(TimedLines(lrc_text.lines))

\* ---------------------------------------------------------------- LRCLIB
\* A response of requests.get: status "raise" is a timeout or connection
\* error raised by the call; synced is the syncedLyrics field of /api/get,
\* results the first candidate of /api/search ("none": empty list, "id": a
\* candidate with an id, "noid": a candidate without).
GetResp(st, v) == [status |-> st, synced |-> v]
SearchResp(st, r) == [status |-> st, results |-> r]

\* the search queries, in the order of the list built at lines 217-222
queries(artist, song) ==
    (IF artist # EmptyStr /\ song # EmptyStr THEN <<"pair", "q_artist_song">> ELSE <<>>)
    \o (IF song # EmptyStr THEN <<"q_song">> ELSE <<>>)

\* the requests.get calls, as they are logged in the order they are sent
ExactGet == <<"get">>
Search(q) == <<"search", q>>
GetById(q) == <<"get_id", q>>

\* the for loop at lines 224-241 from query n on, after the requests in sent:
\* what the function returns and the requests it has sent by then
RECURSIVE search_loop(_, _, _, _)
search_loop(qs, n, net, sent) ==
    IF n > Len(qs) THEN [ret |-> NoLrc, sent |-> sent]
    ELSE LET resp == net.search[qs[n]]
             got  == net.byid[qs[n]]
             s1   == Append(sent, Search(qs[n]))
             s2   == Append(s1, GetById(qs[n]))
         IN  IF resp.status = "200" /\ resp.results = "id"
             THEN IF got.status = "200" /\ Truthy(got.synced)
                  THEN [ret |-> got.synced, sent |-> s2]
                  ELSE search_loop(qs, n + 1, net, s2)
             ELSE search_loop(qs, n + 1, net, s1)

\* lines 192-248: the return value and the requests sent
search_lrclib_call(artist, song, net) ==
    LET params == song # EmptyStr \/ artist # EmptyStr
    IN  IF ~params THEN search_loop(queries(artist, song), 1, net, <<>>)
        ELSE IF net.exact.status = "raise"
        THEN [ret |-> NoLrc, sent |-> <<ExactGet>>]
        ELSE IF net.exact.status = "200" /\ Truthy(net.exact.synced)
        THEN [ret |-> net.exact.synced, sent |-> <<ExactGet>>]
        ELSE search_loop(queries(artist, song), 1, net, <<ExactGet>>)

search_lrclib(artist, song, net) == search_lrclib_call(artist, song, net).ret

\* ------------------------------------------------------------ environment
\* window titles as gw.getAllTitles() can return them
T_A == <<"a", " ", "-", " ", "YouTube">>
T_A2 == <<"a", " ", "(", "official", ")", " ", "-", " ", "YouTube">>
T_B == <<"b", " ", "-", " ", "YouTube">>
T_Other == <<"a", " ", "b">>

WindowLists == { <<>>, <<T_A>>, <<T_Other, T_A2>>, <<T_B>> }

\* the LRC text the service holds for a song
SongLines(song) ==
    << LrcLine(0, 3, 0, song \o <<"2">>),
       LrcLine(0, 1, 0, <<" ">> \o song \o <<"1">>),
       JunkLine,
       LrcLine(0, 1, 0, <<" ">>),
       LrcLine(0, 2, 100, song \o <<"3">>) >>

\* an LRC text with tags only: no line carries a timestamp and a text
TagsOnly == LrcText(<<JunkLine, LrcLine(0, 2, 0, <<>>)>>)

Miss == SearchResp("200", "none")
AllSearch(r) == [q \in {"pair", "q_artist_song", "q_song"} |-> r]
AllById(r) == [q \in {"pair", "q_artist_song", "q_song"} |-> r]

\* what the service answers during one call of search_lrclib
NetScenarios(song) ==
    { [exact |-> GetResp("200", v), search |-> AllSearch(Miss),
       byid |-> AllById(GetResp("404", NoLrc))]
        : v \in {LrcText(SongLines(song)), TagsOnly, NonString} }
    \cup
    { [exact |-> GetResp(st, NoLrc), search |-> AllSearch(Miss),
       byid |-> AllById(GetResp("404", NoLrc))] : st \in {"404", "raise"} }
    \cup
    { [exact |-> GetResp("200", NoLrc), search |-> AllSearch(SearchResp("200", "id")),
       byid |-> AllById(GetResp("200", LrcText(SongLines(song))))] }

\* ------------------------------------------------------------------ state
Threads == {"main", "worker"}

VARIABLES
    now,            \* time.time()
    titles,         \* gw.getAllTitles()
    lyrics, running, start_time, is_loading, last_title, current_song,
    current_label, next_label, title_label,
    pc,             \* where each thread is
    caller,         \* the call site load_song returns to
    load_start, yt_title, lrc, load_time,      \* locals of load_song
    ret,            \* what the thread's last load_song call returned
    last_check, changed, current,              \* locals of update_loop / check_title_change
    elapsed, current_idx,                      \* locals of the display refresh
    outcome,        \* history: how the last reload attempt ended
    pre,            \* history: lyrics, start_time, current_song when the reload began
    lyrics_of, start_of,                       \* history: the song a reload wrote each field for
    read302, read303,        \* history: the clock reads at lines 302 and 303
    old_title,      \* history: last_title before the last change-detector tick
    flight_title,   \* history: the title the window changed to during the reload
    args, result    \* a function applied on its own: its arguments, what it returned

vars == << now, titles, lyrics, running, start_time, is_loading, last_title,
           current_song, current_label, next_label, title_label, pc, caller,
           load_start, yt_title, lrc, load_time, ret, last_check, changed,
           current, elapsed, current_idx, outcome, pre, lyrics_of, start_of,
           read302, read303, old_title, flight_title, args, result >>

fields == << lyrics, running, start_time, is_loading, last_title, current_song >>
labels == << current_label, next_label, title_label >>
load_locals == << load_start, yt_title, lrc, load_time >>
loop_locals == << last_check, changed, current, elapsed, current_idx >>
history == << outcome, pre, lyrics_of, start_of, read302, read303, old_title, flight_title >>
env == << now, titles >>
applied == << args, result >>

Label(t, c) == [text |-> t, fg |-> c]

\* LyricsOverlay.__init__, lines 98-129
InitFields ==
    /\ lyrics = <<>>
    /\ running = TRUE
    /\ start_time = 0
    /\ is_loading = FALSE
    /\ last_title = None
    /\ current_song = None
    /\ current_label = Label(EmptyStr, "yellow")
    /\ next_label = EmptyStr
    /\ title_label = <<"(note)", " ", "Lyrics">>

InitLocals ==
    /\ caller = [t \in Threads |-> "none"]
    /\ load_start = [t \in Threads |-> 0]
    /\ yt_title = [t \in Threads |-> None]
    /\ lrc = [t \in Threads |-> NoLrc]
    /\ load_time = [t \in Threads |-> 0]
    /\ ret = [t \in Threads |-> "none"]
    /\ last_check = 0
    /\ changed = FALSE
    /\ current = None
    /\ elapsed = 0
    /\ current_idx = 0
    /\ outcome = "none"
    /\ pre = <<>>
    /\ lyrics_of = None
    /\ start_of = None
    /\ read302 = 0
    /\ read303 = 0
    /\ old_title = None
    /\ flight_title = None

Init ==
    /\ now = 0
    /\ titles \in WindowLists
    /\ InitFields
    /\ InitLocals
    /\ pc = [t \in Threads |-> IF t = "main" THEN "start" ELSE "not_started"]
    /\ args = <<>> /\ result = <<>>

\* ---------------------------------------------------------------- helpers
\* 'youtube' in title.lower() and title.strip()
IsYouTubeWindow(title) ==
    /\ \E i \in 1..Len(title) : IsYouTube(title[i])
    /\ Strip(title) # <<>>

\* the first YouTube title of the list, or None
RECURSIVE find_youtube_window(_)
find_youtube_window(all) ==
    IF all = <<>> THEN None
    ELSE IF IsYouTubeWindow(Head(all)) THEN Head(all)
    ELSE find_youtube_window(Tail(all))

\* the process lives until the main thread is over (the worker is a daemon)
Alive == pc["main"] # "exited"

\* a thread is inside the try block of load_song, past the window sample
Sampled(t) == pc[t] \in {"ls_search", "ls_parse", "ls_time", "ls_store"}
InTry(t) == pc[t] \in {"ls_find", "ls_search", "ls_parse", "ls_time", "ls_store", "ls_finally"}

\* where thread t continues when its load_song call returns r
\* ("True", "False", or "raise" for an exception that leaves the call)
ReturnTo(t, r) ==
    CASE caller[t] = "start" ->
             IF r = "raise" THEN "exited" ELSE "start_thread"
      [] caller[t] = "update_loop" ->
             IF r = "raise" THEN "ul_except" ELSE "ul_lastcheck"
      [] OTHER -> "returned"

Goto(t, l) == pc' = [pc EXCEPT ![t] = l]

\* -------------------------------------------------------------- load_song
\* the guard placed inside the try block: the finally clause clears the flag
\* of the call that is in progress
load_song_guard_in_try(t) ==
    /\ Alive /\ pc[t] = "ls_guard"
    /\ IF is_loading
       THEN /\ ret' = [ret EXCEPT ![t] = "False"]
            /\ is_loading' = FALSE
            /\ Goto(t, ReturnTo(t, "False"))
       ELSE /\ Goto(t, "ls_set")
            /\ UNCHANGED << ret, is_loading >>
    /\ UNCHANGED << applied, env, lyrics, running, start_time, last_title, current_song,
                    labels, caller, load_locals, loop_locals, history >>

\* lines 269-270: the guard
load_song_guard(t) ==
    /\ Alive /\ pc[t] = "ls_guard"
    /\ IF is_loading
       THEN /\ ret' = [ret EXCEPT ![t] = "False"]
            /\ Goto(t, ReturnTo(t, "False"))
       ELSE /\ Goto(t, "ls_set")
            /\ UNCHANGED ret
    /\ UNCHANGED << applied, env, fields, labels, caller, load_locals, loop_locals, history >>

\* lines 272-273
load_song_set(t) ==
    /\ Alive /\ pc[t] = "ls_set"
    /\ is_loading' = TRUE
    /\ load_start' = [load_start EXCEPT ![t] = now]
    /\ Goto(t, "ls_find")
    /\ outcome' = "loading"
    /\ pre' = << lyrics, start_time, current_song >>
    /\ flight_title' = None
    /\ UNCHANGED << applied, env, lyrics, running, start_time, last_title, current_song, labels,
                    caller, yt_title, lrc, load_time, ret, loop_locals,
                    lyrics_of, start_of, read302, read303, old_title >>

\* lines 276-289: the window sample, parse_song, the "Loading..." texts
load_song_find(t) ==
    /\ Alive /\ pc[t] = "ls_find"
    /\ LET y == find_youtube_window(titles) IN
       IF y = None
       THEN /\ current_label' = Label(<<"No YouTube window">>, "red")
            /\ ret' = [ret EXCEPT ![t] = "False"]
            /\ outcome' = "no_window"
            /\ Goto(t, "ls_finally")
            /\ UNCHANGED << next_label, yt_title >>
       ELSE /\ yt_title' = [yt_title EXCEPT ![t] = y]
            /\ current_label' = Label(<<"Loading...">>, "white")
            /\ next_label' = parse_song(y).full
            /\ Goto(t, "ls_search")
            /\ UNCHANGED << ret, outcome >>
    /\ UNCHANGED << applied, env, fields, title_label, caller, load_start, lrc, load_time,
                    loop_locals, pre, lyrics_of, start_of, read302, read303, old_title,
                    flight_title >>

\* a lookup that clears the lyrics when it finds nothing
load_song_search_clears(t) ==
    /\ Alive /\ pc[t] = "ls_search"
    /\ \E net \in NetScenarios(parse_song(yt_title[t]).song) :
         LET found == search_lrclib(parse_song(yt_title[t]).artist,
                                    parse_song(yt_title[t]).song, net)
         IN  IF ~Truthy(found)
             THEN /\ current_label' = Label(<<"No lyrics found">>, "orange")
                  /\ next_label' = EmptyStr
                  /\ lyrics' = <<>>
                  /\ ret' = [ret EXCEPT ![t] = "False"]
                  /\ outcome' = "no_lyrics"
                  /\ Goto(t, "ls_finally")
                  /\ UNCHANGED lrc
             ELSE /\ lrc' = [lrc EXCEPT ![t] = found]
                  /\ Goto(t, "ls_parse")
                  /\ UNCHANGED << lyrics, current_label, next_label, ret, outcome >>
    /\ UNCHANGED << applied, env, running, start_time, is_loading, last_title, current_song,
                    title_label, caller, load_start, yt_title, load_time,
                    loop_locals, pre, lyrics_of, start_of, read302, read303, old_title,
                    flight_title >>

\* lines 291-297: the lookup, which is over when this step is taken
load_song_search(t) ==
    /\ Alive /\ pc[t] = "ls_search"
    /\ \E net \in NetScenarios(parse_song(yt_title[t]).song) :
         LET found == search_lrclib(parse_song(yt_title[t]).artist,
                                    parse_song(yt_title[t]).song, net)
         IN  IF ~Truthy(found)
             THEN /\ current_label' = Label(<<"No lyrics found">>, "orange")
                  /\ next_label' = EmptyStr
                  /\ ret' = [ret EXCEPT ![t] = "False"]
                  /\ outcome' = "no_lyrics"
                  /\ Goto(t, "ls_finally")
                  /\ UNCHANGED lrc
             ELSE /\ lrc' = [lrc EXCEPT ![t] = found]
                  /\ Goto(t, "ls_parse")
                  /\ UNCHANGED << current_label, next_label, ret, outcome >>
    /\ UNCHANGED << applied, env, fields, title_label, caller, load_start, yt_title, load_time,
                    loop_locals, pre, lyrics_of, start_of, read302, read303, old_title,
                    flight_title >>

\* line 299
load_song_parse(t) ==
    /\ Alive /\ pc[t] = "ls_parse"
    /\ IF parse_lrc_raises(lrc[t])
       THEN /\ ret' = [ret EXCEPT ![t] = "raise"]
            /\ outcome' = "raised"
            /\ Goto(t, "ls_finally")
            /\ UNCHANGED << lyrics, lyrics_of >>
       ELSE /\ lyrics' = parse_lrc(lrc[t])
            /\ lyrics_of' = parse_song(yt_title[t]).full
            /\ Goto(t, "ls_time")
            /\ UNCHANGED << ret, outcome >>
    /\ UNCHANGED << applied, env, running, start_time, is_loading, last_title, current_song,
                    labels, caller, load_locals, loop_locals, pre, start_of, read302,
                    read303, old_title, flight_title >>

\* line 302
load_song_time(t) ==
    /\ Alive /\ pc[t] = "ls_time"
    /\ load_time' = [load_time EXCEPT ![t] = now - load_start[t]]
    /\ read302' = now
    /\ Goto(t, "ls_store")
    /\ UNCHANGED << applied, env, fields, labels, caller, load_start, yt_title, lrc, ret,
                    loop_locals, outcome, pre, lyrics_of, start_of, read303, old_title,
                    flight_title >>

\* full[:50]
Prefix50(s) == SubSeq(s, 1, IF Len(s) < 50 THEN Len(s) ELSE 50)

\* the store without the compensation: start_time is the end of the load
load_song_store_uncompensated(t) ==
    /\ Alive /\ pc[t] = "ls_store"
    /\ start_time' = now
    /\ current_song' = parse_song(yt_title[t]).full
    /\ title_label' = <<"(note)", " ">> \o Prefix50(parse_song(yt_title[t]).full)
    /\ ret' = [ret EXCEPT ![t] = "True"]
    /\ outcome' = "loaded"
    /\ start_of' = parse_song(yt_title[t]).full
    /\ read303' = now
    /\ Goto(t, "ls_finally")
    /\ UNCHANGED << applied, env, lyrics, running, is_loading, last_title, current_label,
                    next_label, caller, load_locals, loop_locals, pre, lyrics_of,
                    read302, old_title, flight_title >>

\* lines 303-312
load_song_store(t) ==
    /\ Alive /\ pc[t] = "ls_store"
    /\ start_time' = now - load_time[t]
    /\ current_song' = parse_song(yt_title[t]).full
    /\ title_label' = <<"(note)", " ">> \o Prefix50(parse_song(yt_title[t]).full)
    /\ ret' = [ret EXCEPT ![t] = "True"]
    /\ outcome' = "loaded"
    /\ start_of' = parse_song(yt_title[t]).full
    /\ read303' = now
    /\ Goto(t, "ls_finally")
    /\ UNCHANGED << applied, env, lyrics, running, is_loading, last_title, current_label,
                    next_label, caller, load_locals, loop_locals, pre, lyrics_of,
                    read302, old_title, flight_title >>

\* the flag cleared as the last statement of the try block, not in a finally:
\* an exception leaves it set
load_song_finally_in_try(t) ==
    /\ Alive /\ pc[t] = "ls_finally"
    /\ is_loading' = (ret[t] = "raise")
    /\ Goto(t, ReturnTo(t, ret[t]))
    /\ load_start' = [load_start EXCEPT ![t] = 0]
    /\ yt_title' = [yt_title EXCEPT ![t] = None]
    /\ lrc' = [lrc EXCEPT ![t] = NoLrc]
    /\ load_time' = [load_time EXCEPT ![t] = 0]
    /\ pre' = <<>>
    /\ read302' = 0
    /\ read303' = 0
    /\ UNCHANGED << applied, env, lyrics, running, start_time, last_title, current_song, labels,
                    caller, ret, loop_locals, outcome, lyrics_of, start_of, old_title,
                    flight_title >>

\* line 315, and the return to the caller
load_song_finally(t) ==
    /\ Alive /\ pc[t] = "ls_finally"
    /\ is_loading' = FALSE
    /\ Goto(t, ReturnTo(t, ret[t]))
    /\ load_start' = [load_start EXCEPT ![t] = 0]
    /\ yt_title' = [yt_title EXCEPT ![t] = None]
    /\ lrc' = [lrc EXCEPT ![t] = NoLrc]
    /\ load_time' = [load_time EXCEPT ![t] = 0]
    /\ pre' = <<>>
    /\ read302' = 0
    /\ read303' = 0
    /\ UNCHANGED << applied, env, lyrics, running, start_time, last_title, current_song, labels,
                    caller, ret, loop_locals, outcome, lyrics_of, start_of, old_title,
                    flight_title >>

\* ----------------------------------------------------- check_title_change
\* the comparison of the raw titles alone: the cleaned forms are not compared
check_title_change_raw(loading, cur, last) ==
    IF loading THEN [ret |-> FALSE, last_title |-> last]
    ELSE IF cur = None THEN [ret |-> FALSE, last_title |-> last]
    ELSE IF last = None THEN [ret |-> FALSE, last_title |-> cur]
    ELSE [ret |-> cur # last, last_title |-> cur]

\* lines 317-341, as a function of what it reads: the value it returns and the
\* last_title it leaves
check_title_change(loading, cur, last) ==
    IF loading THEN [ret |-> FALSE, last_title |-> last]
    ELSE IF cur = None THEN [ret |-> FALSE, last_title |-> last]
    ELSE IF last = None THEN [ret |-> FALSE, last_title |-> cur]
    ELSE IF cur # last
         THEN [ret |-> clean_title(last) # clean_title(cur), last_title |-> cur]
         ELSE [ret |-> FALSE, last_title |-> last]

\* ----------------------------------------------------------- the display
\* the scan with < for <=: a line is current only after its timestamp
RECURSIVE scan_strict(_, _, _, _)
scan_strict(ls, el, i, idx) ==
    IF i >= Len(ls) THEN idx
    ELSE scan_strict(ls, el, i + 1, IF ls[i + 1].time < el THEN i ELSE idx)

\* lines 359-362: the scan for current_idx (Python's 0-based index), from
\* position i on
RECURSIVE scan(_, _, _, _)
scan(ls, el, i, idx) ==
    IF i >= Len(ls) THEN idx
    ELSE scan(ls, el, i + 1, IF ls[i + 1].time <= el THEN i ELSE idx)

\* lines 356-373, as a function of lyrics, start_time and the clock
display(ls, st, clock) ==
    LET el == clock - st
        idx == scan(ls, el, 0, 0)
    IN  [elapsed |-> el,
         current_idx |-> idx,
         current |-> Label(ls[idx + 1].text, "yellow"),
         next |-> IF idx + 1 < Len(ls) THEN ls[idx + 2].text ELSE EmptyStr]

\* ------------------------------------------------------------ update_loop
W == "worker"

\* line 345
update_loop_init ==
    /\ Alive /\ pc[W] = "ul_init"
    /\ last_check' = now
    /\ Goto(W, "ul_while")
    /\ UNCHANGED << applied, env, fields, labels, caller, load_locals, ret, changed, current,
                    elapsed, current_idx, history >>

\* the loop as "while True": the running flag is not tested
update_loop_while_true ==
    /\ Alive /\ pc[W] = "ul_while"
    /\ IF now - last_check > 2 THEN Goto(W, "ul_check")
       ELSE Goto(W, "ul_display")
    /\ UNCHANGED << applied, env, fields, labels, caller, load_locals, ret, loop_locals, history >>

\* lines 347 and 350: the loop test, and whether a check is due
update_loop_while ==
    /\ Alive /\ pc[W] = "ul_while"
    /\ IF ~running THEN Goto(W, "ul_done")
       ELSE IF now - last_check > 2 THEN Goto(W, "ul_check")
       ELSE Goto(W, "ul_display")
    /\ UNCHANGED << applied, env, fields, labels, caller, load_locals, ret, loop_locals, history >>

\* line 351: the call of check_title_change
update_loop_check ==
    /\ Alive /\ pc[W] = "ul_check"
    /\ LET cur == find_youtube_window(titles)
           r == check_title_change(is_loading, cur, last_title)
       IN  /\ changed' = r.ret
           /\ last_title' = r.last_title
           /\ current' = IF is_loading THEN None ELSE cur
           /\ old_title' = last_title
    /\ Goto(W, "ul_checked")
    /\ UNCHANGED << applied, env, lyrics, running, start_time, is_loading, current_song, labels,
                    caller, load_locals, ret, last_check, elapsed, current_idx,
                    outcome, pre, lyrics_of, start_of, read302, read303, flight_title >>

\* load_song called on every check, whatever check_title_change returned
update_loop_checked_always ==
    /\ Alive /\ pc[W] = "ul_checked"
    /\ Goto(W, "ls_guard")
    /\ caller' = [caller EXCEPT ![W] = "update_loop"]
    /\ ret' = [ret EXCEPT ![W] = "none"]
    /\ UNCHANGED << applied, env, fields, labels, load_locals, loop_locals, history >>

\* lines 351-352: load_song is called when the title changed
update_loop_checked ==
    /\ Alive /\ pc[W] = "ul_checked"
    /\ IF changed
       THEN /\ Goto(W, "ls_guard")
            /\ caller' = [caller EXCEPT ![W] = "update_loop"]
            /\ ret' = [ret EXCEPT ![W] = "none"]
       ELSE /\ Goto(W, "ul_lastcheck")
            /\ UNCHANGED << caller, ret >>
    /\ UNCHANGED << applied, env, fields, labels, load_locals, loop_locals, history >>

\* line 353
update_loop_lastcheck ==
    /\ Alive /\ pc[W] = "ul_lastcheck"
    /\ last_check' = now
    /\ changed' = FALSE
    /\ current' = None
    /\ old_title' = None
    /\ Goto(W, "ul_display")
    /\ UNCHANGED << applied, env, fields, labels, caller, load_locals, ret, elapsed, current_idx,
                    outcome, pre, lyrics_of, start_of, read302, read303, flight_title >>

\* lines 356-373: the display refresh
update_loop_display ==
    /\ Alive /\ pc[W] = "ul_display"
    /\ IF lyrics # <<>>
       THEN LET d == display(lyrics, start_time, now) IN
            /\ elapsed' = d.elapsed
            /\ current_idx' = d.current_idx
            /\ current_label' = d.current
            /\ next_label' = d.next
       ELSE UNCHANGED << elapsed, current_idx, current_label, next_label >>
    /\ Goto(W, "ul_sleep")
    /\ UNCHANGED << applied, env, fields, title_label, caller, load_locals, ret, last_check,
                    changed, current, history >>

\* line 375; elapsed and current_idx are assigned anew before they are read
update_loop_sleep ==
    /\ Alive /\ pc[W] = "ul_sleep"
    /\ elapsed' = 0
    /\ current_idx' = 0
    /\ Goto(W, "ul_while")
    /\ UNCHANGED << applied, env, fields, labels, caller, load_locals, ret, last_check, changed,
                    current, history >>

\* lines 377-379: an exception of the iteration is caught, the loop goes on
update_loop_except ==
    /\ Alive /\ pc[W] = "ul_except"
    /\ changed' = FALSE
    /\ current' = None
    /\ old_title' = None
    /\ Goto(W, "ul_while")
    /\ UNCHANGED << applied, env, fields, labels, caller, load_locals, ret, last_check, elapsed,
                    current_idx, outcome, pre, lyrics_of, start_of, read302, read303,
                    flight_title >>

\* ---------------------------------------------------------- start, close
M == "main"

\* line 384: start() calls load_song on the thread that called start()
start_load ==
    /\ pc[M] = "start"
    /\ Goto(M, "ls_guard")
    /\ caller' = [caller EXCEPT ![M] = "start"]
    /\ UNCHANGED << applied, env, fields, labels, load_locals, ret, loop_locals, history >>

\* lines 388-395: the worker is started, the main thread enters mainloop
start_thread ==
    /\ pc[M] = "start_thread"
    /\ pc' = [pc EXCEPT ![M] = "mainloop", ![W] = "ul_init"]
    /\ UNCHANGED << applied, env, fields, labels, caller, load_locals, ret, loop_locals, history >>

\* lines 397-400: the close button, handled by mainloop
close ==
    /\ pc[M] = "mainloop"
    /\ running' = FALSE
    /\ Goto(M, "quit")
    /\ UNCHANGED << applied, env, lyrics, start_time, is_loading, last_title, current_song,
                    labels, caller, load_locals, ret, loop_locals, history >>

\* mainloop and start() return, the script ends and takes the daemon worker
\* with it
exit_process ==
    /\ pc[M] = "quit"
    /\ Goto(M, "exited")
    /\ UNCHANGED << applied, env, fields, labels, caller, load_locals, ret, loop_locals, history >>

\* ------------------------------------------------------------ environment
\* the clock advances, up to a bound
Advance(bound) ==
    /\ Alive /\ now < bound
    /\ now' = now + 1
    /\ UNCHANGED << applied, titles, fields, labels, pc, caller, load_locals, ret, loop_locals,
                    history >>

Tick == Advance(MaxTime)

\* a reload of thread t is in flight and has sampled its title
InFlight(t) == (Sampled(t) \/ pc[t] = "ls_finally") /\ yt_title[t] # None

\* the user opens, closes or navigates the YouTube window
WindowChange ==
    /\ Alive
    /\ \E w \in WindowLists \ {titles} :
         /\ titles' = w
         /\ LET f == find_youtube_window(w) IN
            flight_title' =
              IF \E t \in Threads : InFlight(t)
              THEN LET t == CHOOSE t \in Threads : InFlight(t) IN
                   IF f # None /\ clean_title(f) # clean_title(yt_title[t])
                   THEN f ELSE None
              ELSE IF f = flight_title THEN flight_title ELSE None
    /\ UNCHANGED << applied, now, fields, labels, pc, caller, load_locals, ret, loop_locals,
                    outcome, pre, lyrics_of, start_of, read302, read303, old_title >>

\* ---------------------------------------------------------- the program
load_song(t) ==
    \/ load_song_guard(t)
    \/ load_song_set(t)
    \/ load_song_find(t)
    \/ load_song_search(t)
    \/ load_song_parse(t)
    \/ load_song_time(t)
    \/ load_song_store(t)
    \/ load_song_finally(t)

update_loop ==
    \/ update_loop_init
    \/ update_loop_while
    \/ update_loop_check
    \/ update_loop_checked
    \/ update_loop_lastcheck
    \/ update_loop_display
    \/ update_loop_sleep
    \/ update_loop_except

Next ==
    \/ start_load
    \/ start_thread
    \/ close
    \/ exit_process
    \/ \E t \in Threads : load_song(t)
    \/ update_loop
    \/ Tick
    \/ WindowChange

Spec == Init /\ [][Next]_vars

\* ------------------------------------------- load_song called by two threads
\* Two threads call load_song at about the same time.
InitConcurrent ==
    /\ now = 0
    /\ titles \in WindowLists
    /\ InitFields
    /\ InitLocals
    /\ pc = [t \in Threads |-> "ls_guard"]
    /\ args = <<>> /\ result = <<>>

TickConcurrent == Advance(MaxRaceTime)

NextConcurrent ==
    \/ \E t \in Threads : load_song(t)
    \/ TickConcurrent

SpecConcurrent == InitConcurrent /\ [][NextConcurrent]_vars

\* ------------------------------------------------ functions on their own
\* the object as constructed, with no thread running: what a function applied
\* on its own leaves alone
program == << env, fields, labels, pc, caller, load_locals, ret, loop_locals, history >>

AtRest ==
    /\ now = 0
    /\ titles = <<>>
    /\ InitFields
    /\ InitLocals
    /\ pc = [t \in Threads |-> "none"]

\* clean_title applied to a title, then to what it returned
MaxTitleLen == 5
TitleTokens == {"a", " ", "-", "(", "official", ")", "YouTube"}
Titles == UNION {[1..k -> TitleTokens] : k \in 0..MaxTitleLen}

InitClean == AtRest /\ args \in Titles /\ result = <<>>

clean_title_applied ==
    /\ Len(result) < 2
    /\ result' = Append(result, clean_title(IF result = <<>> THEN args ELSE result[1]))
    /\ UNCHANGED << program, args >>

SpecClean == InitClean /\ [][clean_title_applied]_vars

\* check_title_change applied to a loading flag, a window sample and a
\* recorded title
T_B2 == <<"b", " ", "|", " ", "x", " ", "-", " ", "YouTube">>
T_Y == <<"YouTube">>
Samples == {None, T_A, T_A2, T_B, T_B2, T_Y}

InitCheck ==
    /\ AtRest
    /\ args \in [loading : BOOLEAN, cur : Samples, last : Samples]
    /\ result = <<>>

check_title_change_applied ==
    /\ result = <<>>
    /\ result' = <<check_title_change(args.loading, args.cur, args.last)>>
    /\ UNCHANGED << program, args >>

SpecCheck == InitCheck /\ [][check_title_change_applied]_vars

\* search_lrclib applied to an artist and a song, with the service answering
\* each request in one of the ways requests.get can end
Strategies == {"pair", "q_artist_song", "q_song"}
Lyr(tag) == LrcText(<<LrcLine(0, 1, 0, <<tag>>)>>)
ExactAnswers ==
    {GetResp("raise", NoLrc), GetResp("404", NoLrc), GetResp("200", NoLrc),
     GetResp("200", Lyr("exact"))}
SearchAnswers ==
    {SearchResp("raise", "none"), SearchResp("404", "none"), SearchResp("200", "none"),
     SearchResp("200", "noid"), SearchResp("200", "id")}
ByIdAnswers(q) ==
    {GetResp("raise", NoLrc), GetResp("200", NoLrc), GetResp("200", Lyr(q))}
Nets ==
    {n \in [exact : ExactAnswers,
            search : [Strategies -> SearchAnswers],
            byid : [Strategies -> UNION {ByIdAnswers(q) : q \in Strategies}]] :
        \A q \in Strategies : n.byid[q] \in ByIdAnswers(q)}

InitSearch ==
    /\ AtRest
    /\ args \in [artist : {EmptyStr, <<"x">>}, song : {EmptyStr, <<"a">>}, net : Nets]
    /\ result = <<>>

search_lrclib_applied ==
    /\ result = <<>>
    /\ result' = <<search_lrclib_call(args.artist, args.song, args.net)>>
    /\ UNCHANGED << program, args >>

SpecSearch == InitSearch /\ [][search_lrclib_applied]_vars

\* =================================================================== claims

\* a thread is past the guard of load_song: it tested is_loading and found
\* it False
PastGuard(t) == pc[t] = "ls_set" \/ InTry(t)

\* C1: when two threads call load_song concurrently, at most one of them is
\* past the is_loading guard at any time; the other call returns False.
C1_AtMostOnePastGuard == Cardinality({t \in Threads : PastGuard(t)}) <= 1

\* C2: is_loading is True throughout every lyrics network call of load_song,
\* and False whenever no load_song call is between the statement that set it
\* and its end, whichever way the call ended (loaded, no window, no lyrics,
\* exception).
C2_LoadingFlag ==
    /\ \A t \in Threads : pc[t] = "ls_search" => is_loading
    /\ is_loading <=> \E t \in Threads : InTry(t)

\* the worker caught an exception of a reload, and the flag is down again
C2_Witness ==
    /\ pc[W] = "ul_except"
    /\ outcome = "raised"
    /\ ret[W] = "raise"
    /\ ~is_loading

\* C3: the lyrics network fetch never executes on the thread that runs
\* root.mainloop (the thread that called start()).
C3_FetchOffMainThread == pc[M] # "ls_search"

\* C4: with non-empty lyrics sorted by time, the display refresh shows no
\* current line while elapsed is smaller than the first line's time (the
\* first line's text is not the current text), and resolves the last line
\* when elapsed is at least the last line's time.
C4_CurrentIndex ==
    (pc[W] = "ul_sleep" /\ lyrics # <<>>) =>
        /\ elapsed < lyrics[1].time => current_label.text # lyrics[1].text
        /\ elapsed >= lyrics[Len(lyrics)].time => current_idx = Len(lyrics) - 1

\* C5: a reload never partially applies.  A reload that ends with no target
\* window or no lyrics found leaves lyrics, start_time and current_song as
\* they were when it began; a reload that succeeds has written all three for
\* its song; and whenever the display refresh runs, the three belong to the
\* same song.
C5_ReloadAtomic ==
    /\ \A t \in Threads :
         (pc[t] = "ls_finally" /\ outcome \in {"no_window", "no_lyrics"}) =>
             << lyrics, start_time, current_song >> = pre
    /\ \A t \in Threads :
         (pc[t] = "ls_finally" /\ outcome = "loaded") =>
             /\ current_song = parse_song(yt_title[t]).full
             /\ lyrics_of = current_song
             /\ start_of = current_song
    /\ pc[W] = "ul_display" => (lyrics_of = current_song /\ start_of = current_song)

\* a reload of the worker found no lyrics while a song was loaded, and is
\* about to end
C5_Witness ==
    /\ pc[W] = "ls_finally"
    /\ outcome = "no_lyrics"
    /\ lyrics # <<>>
    /\ current_song # None

\* C6: after a reload that ended because no lyrics were found, and until the
\* next reload begins, every display refresh leaves the "not found"
\* indicator as current text and an empty next-line text.
C6_NotFoundStays ==
    (pc[W] = "ul_sleep" /\ outcome = "no_lyrics") =>
        /\ current_label.text = <<"No lyrics found">>
        /\ next_label = EmptyStr

\* C7: a lookup whose payload decodes to zero timed lines is a failed reload:
\* load_song returns False, the reload ends as "no lyrics found", and the
\* display shows the "not found" indicator with an empty next-line text.
C7_EmptyDecodeFails ==
    \A t \in Threads :
        (pc[t] = "ls_finally" /\ lrc[t].kind = "str" /\ parse_lrc(lrc[t]) = <<>>) =>
            /\ ret[t] = "False"
            /\ outcome = "no_lyrics"
            /\ current_label.text = <<"No lyrics found">>
            /\ next_label = EmptyStr

\* C8: after a load attempt that found no target window, with no reload
\* attempted since, a change-detector tick that samples the title the
\* detector has already seen at an earlier tick (the title did not change
\* once more) triggers the reload.
C8_NoWindowRetried ==
    (/\ pc[W] = "ul_checked"
     /\ outcome = "no_window"
     /\ current # None
     /\ old_title = current) => changed

\* C9: when the window title changed to a different song while a reload was
\* in flight and that title is still showing, the change-detector tick after
\* the reload has ended reports the change (and so triggers a new reload).
C9_ChangeInFlightDetected ==
    (/\ pc[W] = "ul_checked"
     /\ flight_title # None
     /\ current = flight_title) => changed

\* C10: after a successful load, start_time is the instant at which the load
\* began, plus the time that passed between the clock reads of lines 302 and
\* 303; so at the second read elapsed = now - start_time is the duration of
\* the load up to the first read.
C10_StartTimeIsLoadStart ==
    \A t \in Threads :
        (pc[t] = "ls_finally" /\ ret[t] = "True") =>
            /\ read302 <= read303
            /\ start_time = load_start[t] + (read303 - read302)
            /\ read303 - start_time = read302 - load_start[t]

\* a load that took two seconds or more has succeeded
C10_Witness ==
    \E t \in Threads :
        /\ pc[t] = "ls_finally"
        /\ ret[t] = "True"
        /\ read302 - load_start[t] >= 2

\* the lines of the loaded lyrics that are reached at elapsed time el
Reached(el) == {i \in 1..Len(lyrics) : lyrics[i].time <= el}
LastReached(el) == CHOOSE i \in Reached(el) : \A j \in Reached(el) : j <= i

\* C11: with lyrics loaded and elapsed at least the first line's time, the
\* display refresh shows as current text the line of the greatest index whose
\* time is <= elapsed (the last one of several lines with the same
\* timestamp), and as next text the line after it, or the empty text when
\* the current line is the last one.
C11_CurrentAndNext ==
    (pc[W] = "ul_sleep" /\ lyrics # <<>> /\ elapsed >= lyrics[1].time) =>
        /\ current_idx + 1 = LastReached(elapsed)
        /\ current_label.text = lyrics[LastReached(elapsed)].text
        /\ next_label = IF LastReached(elapsed) < Len(lyrics)
                        THEN lyrics[LastReached(elapsed) + 1].text
                        ELSE EmptyStr

\* a refresh at the timestamp that the last two lines share: the later of the
\* two is current and there is no next line
C11_Witness ==
    /\ pc[W] = "ul_sleep"
    /\ Len(lyrics) = 3
    /\ lyrics[2].time = lyrics[3].time
    /\ elapsed = lyrics[3].time
    /\ current_idx = 2
    /\ next_label = EmptyStr

\* thread t takes the step of load_song's guard while a load is in progress
GuardedCall(t) == pc[t] = "ls_guard" /\ is_loading /\ pc'[t] # "ls_guard"

\* C12: a call to load_song made while is_loading is already True returns
\* False and changes nothing: the lyrics, start_time, current_song,
\* last_title and the displayed texts are unchanged, the call neither samples
\* the window nor looks anything up (it returns straight from the guard, its
\* locals untouched), and is_loading stays True.
C12_GuardedCallIsNoOp ==
    [][\A t \in Threads :
          GuardedCall(t) =>
              /\ ret'[t] = "False"
              /\ pc'[t] = ReturnTo(t, "False")
              /\ is_loading'
              /\ UNCHANGED << lyrics, start_time, current_song, last_title,
                              running, labels, load_locals >>]_vars

\* one thread has sampled nothing yet and the other has returned False with
\* every displayed text still as constructed: every other False return of
\* load_song writes the current text first, so this one came from the guard
C12_Witness ==
    \E t, u \in Threads :
        /\ pc[t] = "returned" /\ ret[t] = "False"
        /\ pc[u] = "ls_find" /\ is_loading
        /\ current_label = Label(EmptyStr, "yellow")

\* a load_song call passes its guard (line 272) when the last one ended with
\* "No lyrics found"
RetryAfterNotFound == outcome = "no_lyrics" /\ outcome' = "loading"

\* C13: after a reload failed because every lookup strategy was exhausted, no
\* further lookup is issued for as long as the change detector samples the
\* title it has recorded; the next load_song call is the worker's, made after
\* check_title_change reported a change: its sample differs from the title
\* recorded before, raw and cleaned.
C13_RetryOnlyOnChange ==
    [][RetryAfterNotFound =>
          /\ pc[W] = "ls_set" /\ caller[W] = "update_loop"
          /\ changed
          /\ current # None /\ old_title # None
          /\ current # old_title
          /\ clean_title(current) # clean_title(old_title)]_vars

\* after "No lyrics found" a check samples the title that is already recorded
\* and reports no change, so no lookup follows
C13_Witness ==
    /\ outcome = "no_lyrics"
    /\ pc[W] = "ul_checked"
    /\ current # None /\ current = old_title
    /\ ~changed

\* C14: whenever the display refresh runs while no target window exists, the
\* current text shows the "No YouTube window" indicator, also when the window
\* disappeared after lyrics were loaded.
C14_NoWindowShown ==
    [][(pc[W] = "ul_display" /\ pc'[W] = "ul_sleep"
            /\ find_youtube_window(titles) = None) =>
          current_label'.text = <<"No YouTube window">>]_vars

\* the number of steps the worker has left, at most, before its loop ends
\* once running is False
StepsLeft(l) ==
    CASE l = "ul_check"     -> 14
      [] l = "ul_checked"   -> 13
      [] l = "ls_guard"     -> 12
      [] l = "ls_set"       -> 11
      [] l = "ls_find"      -> 10
      [] l = "ls_search"    -> 9
      [] l = "ls_parse"     -> 8
      [] l = "ls_time"      -> 7
      [] l = "ls_store"     -> 6
      [] l = "ls_finally"   -> 5
      [] l = "ul_lastcheck" -> 4
      [] l = "ul_display"   -> 3
      [] l = "ul_except"    -> 2
      [] l = "ul_sleep"     -> 2
      [] l = "ul_init"      -> 2
      [] l = "ul_while"     -> 1
      [] l = "ul_done"      -> 0

\* C15: running is True from initialisation, is set to False by close() and
\* is never set back to True; once it is False the worker finishes at most the
\* iteration it is in (a reload started in it included), passes the loop test
\* no more, and terminates: every step the worker takes from then on brings
\* the end of its loop nearer, from at most StepsLeft steps away (none of its
\* steps waits for anything but a bounded sleep or a request with a timeout).
C15_RunningStopsTheLoop ==
    [][/\ running \/ pc[M] = "quit"
       /\ ~running => ~running'
       /\ (running /\ ~running') => (pc[M] = "mainloop" /\ pc'[M] = "quit")
       /\ (~running /\ pc'[W] # pc[W]) => StepsLeft(pc'[W]) < StepsLeft(pc[W])
       /\ ~running' => StepsLeft(pc'[W]) >= 0]_vars

\* close() has come and the worker has left its loop, after a reload of its
\* own
C15_Witness ==
    /\ ~running /\ Alive
    /\ pc[W] = "ul_done"
    /\ caller[W] = "update_loop" /\ outcome = "loaded"

\* C16: clean_title is idempotent: clean_title(clean_title(x)) =
\* clean_title(x) for every title x.
C16_CleanIdempotent == Len(result) = 2 => result[2] = result[1]

\* C17: check_title_change reports a change exactly when no load is in
\* progress, a window was found, a previous title is recorded, the raw sample
\* differs from it and their cleaned forms differ. Whenever a window was found
\* and no load is in progress, last_title is the sampled raw title afterwards
\* (also when the cleaned forms are equal); when a load is in progress or no
\* window was found, last_title is unchanged.
C17_ChangeReported ==
    result # <<>> =>
        /\ result[1].ret =
              (/\ ~args.loading
               /\ args.cur # None
               /\ args.last # None
               /\ args.cur # args.last
               /\ clean_title(args.cur) # clean_title(args.last))
        /\ (~args.loading /\ args.cur # None) => result[1].last_title = args.cur
        /\ (args.loading \/ args.cur = None) => result[1].last_title = args.last

\* the raw titles differ and their cleaned forms are equal: no change is
\* reported and the sample is recorded
C17_Witness ==
    /\ result # <<>>
    /\ ~args.loading /\ args.cur # None /\ args.last # None
    /\ args.cur # args.last
    /\ clean_title(args.cur) = clean_title(args.last)
    /\ ~result[1].ret
    /\ result[1].last_title = args.cur

\* the lookup strategies that apply to the arguments, in the order of the
\* claim: the exact match, then the searches
Applicable ==
    (IF args.song # EmptyStr \/ args.artist # EmptyStr THEN <<"exact">> ELSE <<>>)
    \o queries(args.artist, args.song)

\* the first request of a strategy
FirstRequest(st) == IF st = "exact" THEN ExactGet ELSE Search(st)

WasSent(r) == \E i \in 1..Len(result[1].sent) : result[1].sent[i] = r

\* C18: a timeout or connection failure inside any single strategy step, the
\* first exact-match lookup included, is caught and the next strategy is still
\* attempted: search_lrclib returns "not found" only after every strategy
\* that applies to (artist, song) has been tried or has failed.
C18_EveryStrategyTried ==
    (result # <<>> /\ result[1].ret = NoLrc) =>
        \A i \in 1..Len(Applicable) : WasSent(FirstRequest(Applicable[i]))

\* what the service answers to strategy st: whether the step yields synced
\* lyrics, the lyrics, and the requests the step takes
Yields(st) ==
    IF st = "exact"
    THEN args.net.exact.status = "200" /\ Truthy(args.net.exact.synced)
    ELSE /\ args.net.search[st].status = "200" /\ args.net.search[st].results = "id"
         /\ args.net.byid[st].status = "200" /\ Truthy(args.net.byid[st].synced)

Yielded(st) ==
    IF st = "exact" THEN args.net.exact.synced ELSE args.net.byid[st].synced

RequestsOf(st) ==
    IF st = "exact" THEN <<ExactGet>>
    ELSE IF args.net.search[st].status = "200" /\ args.net.search[st].results = "id"
    THEN <<Search(st), GetById(st)>>
    ELSE <<Search(st)>>

\* the requests of the first k strategies that apply, in order
RECURSIVE RequestsUpTo(_)
RequestsUpTo(k) ==
    IF k = 0 THEN <<>> ELSE RequestsUpTo(k - 1) \o RequestsOf(Applicable[k])

FirstYield ==
    IF \E k \in 1..Len(Applicable) : Yields(Applicable[k])
    THEN CHOOSE k \in 1..Len(Applicable) :
             Yields(Applicable[k]) /\ \A j \in 1..(k - 1) : ~Yields(Applicable[j])
    ELSE 0

\* C19: search_lrclib tries its strategies in a fixed order: the exact match
\* (when artist or song is non-empty), the search by artist_name and
\* track_name, the free-text search for artist and song, the free-text search
\* for the song, each search followed by the fetch by id of its first
\* candidate. It returns the synced lyrics of the first step in that order
\* whose response carries non-empty syncedLyrics and sends no request after
\* that step; it returns none exactly when no step yields synced lyrics.
C19_FirstYieldInOrder ==
    result # <<>> =>
        IF FirstYield = 0
        THEN /\ result[1].ret = NoLrc
             /\ result[1].sent = RequestsUpTo(Len(Applicable))
        ELSE /\ result[1].ret = Yielded(Applicable[FirstYield])
             /\ result[1].sent = RequestsUpTo(FirstYield)

\* C20: if from some point on the window keeps showing one title and every
\* lookup for it succeeds, current_song eventually is the cleaned form of that
\* title, also when the title changed between the startup load and the
\* worker's first sample. In the form a finite run refutes: at a check that
\* samples the title the detector has already recorded (so it reports no
\* change now, nor at any later check while the title stays), with the last
\* load a success, current_song is the cleaned form of the title.
C20_Converges ==
    (/\ pc[W] = "ul_checked"
     /\ current # None
     /\ old_title = current
     /\ outcome = "loaded") => current_song = clean_title(current)

====
